---- MODULE Spec2Model ----
(***************************************************************************)
(* Model of Vulcan.mongoToSql, the Mongo -> Postgres batch migration       *)
(* driver (packages/lesswrong/lib/collections/databaseMetadata/            *)
(* collection.ts, lines 27-113).                                           *)
(*                                                                         *)
(* The driver is an async function.  Each action below is the code that    *)
(* runs between two suspension points (the awaits on sql.unsafe and on the *)
(* document cursor); pc names the await the run is parked at.              *)
(***************************************************************************)
EXTENDS Integers, Sequences, FiniteSets, TLC

\* ----------------------------------------------------------------- bounds
\* Largest source collection (documents).
MaxDocs == 801
\* Number of times the operator invokes mongoToSql in one behaviour.
MaxRuns == 2
\* Largest number of indexes registered on the collection.
MaxIndexes == 2
\* Widest derived table (columns).
MaxFields == 164

\* ------------------------------------------------------ program constants
\* const batchSize = 400;
\* Faulty variant: a batch twice as large.
batchSizeDoubled == 2 * 400
\* The batch size of the code.
batchSize == 400
\* "The Postgres protocol stores parameter indexes as a U16, so there can't
\* be more than 65534."
maxParameters == 65534
\* {conflictStrategy: "ignore"}: the option mongoToSql passes to InsertQuery.
\* Faulty variant: rows already present are overwritten.
conflictStrategyUpsert == "upsert"
\* The strategy of the code.
conflictStrategy == "ignore"

VARIABLES
  collectionName,  \* argument of mongoToSql
  schemaFields,    \* collection._schemaFields: field name -> declared type
  collIndexes,     \* indexes registered on the collection, in order
  source,          \* the Mongo collection: documents in cursor order
  dest,            \* the Postgres table: rows in insertion order
  clock,           \* Date.now()
  run,             \* number of invocations of mongoToSql so far
  pc,              \* where the current invocation is
  table,           \* Table.fromCollection(collection)
  skippedFields,   \* schema fields that are not table fields
  idx,             \* position in indexQueries
  cursor,          \* documents already delivered by the cursor
  documents,       \* the batch handed to the callback (after formatData)
  count,           \* let count
  errorIds,        \* let errorIds
  error,           \* the error mongoToSql threw, or NoError
  stmts,           \* statements executed by sql.unsafe in this invocation
  log,             \* console output of this invocation
  rowsAtStart      \* Len(dest) when this invocation began

\* serverStartup and the Switching Collection of the processes it starts.
VARIABLES
  forumTypeSetting, \* forumTypeSetting.get()
  postgresUrl,      \* commandLineArguments.postgresUrl is set
  shellMode,        \* commandLineArguments.shellMode
  isAnyTest,        \* isAnyTest
  lockState,        \* the lock/state record: the authoritative backend
  cutovers,         \* cutovers made so far
  elapsed,          \* polling intervals since the record was last written
  phase,            \* per process: where serverStartup is
  sqlClient,        \* per process: setSqlClient was called
  calls,            \* per process: calls made on the collections and the server
  target,           \* per process: backend the Switching Collection routes to
  polling,          \* per process: startPolling was called
  pollDue,          \* per process: a poll is due or in flight
  lastPoll,         \* per process: outcome of the latest poll
  hasRead,          \* per process: some poll has read the lock record
  op                \* per process: the latest operation on the collection

\* mongoToSql
mvars == << collectionName, schemaFields, collIndexes, source, dest, clock, run,
            pc, table, skippedFields, idx, cursor, documents, count, errorIds,
            error, stmts, log, rowsAtStart >>

\* The command line and the settings.
config == << forumTypeSetting, postgresUrl, shellMode, isAnyTest >>

\* serverStartup and the Switching Collection
svars == << config, lockState, cutovers, elapsed, phase, sqlClient, calls,
            target, polling, pollDue, lastPoll, hasRead, op >>

\* The Form component.
VARIABLES
  autoSubmit,       \* props.autoSubmit
  disabled,         \* state.disabled
  currentValues,    \* state.currentValues: path -> value
  currentDocument,  \* state.currentDocument: path -> value
  deletedValues,    \* state.deletedValues
  stateQueue,       \* setState updaters React has not applied yet
  submitted,        \* submitForm calls that went past the disabled test
  awaitingData,     \* submitForm calls awaiting getData
  inFlight,         \* create/update mutations awaited
  updates,          \* updateCurrentValues calls so far
  formCallbacks,    \* submitFormCallbacks, successFormCallbacks, failureFormCallbacks
  registrations,    \* the calls of addTo...Form so far: list and callback
  cleanupRuns       \* per registration: times its cleanup function has run

fvars == << autoSubmit, disabled, currentValues, currentDocument, deletedValues,
            stateQueue, submitted, awaitingData, inFlight, updates,
            formCallbacks, registrations, cleanupRuns >>

vars == << mvars, svars, fvars >>

\* ------------------------------------------------------------------ values
Range(s) == { s[i] : i \in 1..Len(s) }
Min(a, b) == IF a < b THEN a ELSE b

\* A field value carries its JavaScript type; val is the boolean (0/1) or the
\* timestamp of a Date, str the characters of a string.
Undefined == [type |-> "undefined", val |-> 0, str |-> ""]
BoolVal(b) == [type |-> "boolean", val |-> b, str |-> ""]
DateVal(t) == [type |-> "date", val |-> t, str |-> ""]
StrVal(s) == [type |-> "string", val |-> 0, str |-> s]

\* !value for the values above: undefined, false and "" are falsy.
Falsy(v) ==
  \/ v.type = "undefined"
  \/ v.type = "boolean" /\ v.val = 0
  \/ v.type = "string" /\ v.str = ""

NoError == "none"

\* ---------------------------------------------------------------- inputs
TitleKinds == << StrVal("Hello"), StrVal(""), Undefined >>
ScoreKinds == << BoolVal(1), DateVal(0), BoolVal(0), Undefined >>

\* The stored document with _id i.  Titles cycle with period 3 and
\* scoreExceeded75Date with period 4, so every combination occurs.
DocAt(i) ==
  [ _id |-> i,
    title |-> TitleKinds[(i % 3) + 1],
    scoreExceeded75Date |-> ScoreKinds[(i % 4) + 1] ]

StoredCollection(n) == [ i \in 1..n |-> DocAt(i) ]

DocCounts == { 0, 1, batchSize, batchSize + 1, MaxDocs }

\* Collections registered with the framework (getCollection finds these).
RegisteredCollections == { "Posts", "Comments" }
CollectionNames == RegisteredCollections \cup { "Nope" }

NamedSchema ==
  [ _id |-> "String", title |-> "String", scoreExceeded75Date |-> "Date",
    legacy |-> "Unrepresentable" ]
PadFields(k) == { "f" \o ToString(i) : i \in 1..k }
\* A schema whose representable fields number m >= 3.
SchemaOfWidth(m) ==
  [ f \in DOMAIN NamedSchema \cup PadFields(m - 3) |->
      IF f \in DOMAIN NamedSchema THEN NamedSchema[f] ELSE "String" ]
ZeroUsableSchema == [ f \in { "legacy" } |-> "Unrepresentable" ]
Schemas ==
  { ZeroUsableSchema, SchemaOfWidth(3), SchemaOfWidth(MaxFields - 1),
    SchemaOfWidth(MaxFields) }

IndexFields == << "title", "scoreExceeded75Date", "_id" >>
IndexLists == { SubSeq(IndexFields, 1, k) : k \in 0..Min(MaxIndexes, Len(IndexFields)) }

\* Outcomes of a statement handed to sql.unsafe.
BackendErrors == { "PostgresError", "ConnectionError" }
SqlOutcomes == { "ok" } \cup BackendErrors

\* ------------------------------------------------- Table and query builders
Representable(type) == type \in { "String", "Date", "Bool", "Number" }

\* Table.fromCollection: one column per schema field with a relational type.
TableFromCollection(schema, indexes) ==
  [ fields |-> { f \in DOMAIN schema : Representable(schema[f]) },
    indexes |-> indexes ]

NoTable == [ fields |-> {}, indexes |-> << >> ]

\* new CreateTableQuery(table).compile() throws for a table without columns.
CreateTableCompiles(t) == t.fields # {}

\* The row InsertQuery writes for a document: its values for the table's
\* columns (values of other fields are dropped).
Row(doc, fields) == [ f \in (DOMAIN doc) \cap fields |-> doc[f] ]

\* Number of $n parameters of a compiled InsertQuery: one per document and column.
InsertArgs(docs, t) == Len(docs) * Cardinality(t.fields)

Ids(rows) == { rows[i]._id : i \in 1..Len(rows) }

\* Effect of a successfully executed INSERT under a conflict strategy:
\* [ok, rows, inserted].  "ignore" is ON CONFLICT DO NOTHING, "upsert" is
\* ON CONFLICT DO UPDATE, "error" (the default) fails on a duplicate key.
ExecInsert(rows, new, strategy) ==
  LET present == Ids(rows)
      fresh == SelectSeq(new, LAMBDA r : r._id \notin present)
      incoming == [ id \in Ids(new) |-> CHOOSE r \in Range(new) : r._id = id ]
  IN  CASE strategy = "ignore" ->
             [ ok |-> TRUE, rows |-> rows \o fresh, inserted |-> Len(fresh) ]
        [] strategy = "upsert" ->
             [ ok |-> TRUE,
               rows |-> [ i \in 1..Len(rows) |->
                            IF rows[i]._id \in DOMAIN incoming
                              THEN incoming[rows[i]._id] ELSE rows[i] ] \o fresh,
               inserted |-> Len(new) ]
        [] OTHER ->
             IF Len(fresh) = Len(new)
               THEN [ ok |-> TRUE, rows |-> rows \o new, inserted |-> Len(new) ]
               ELSE [ ok |-> FALSE, rows |-> rows, inserted |-> 0 ]

\* One executed statement: its kind, its outcome ("ok" or the error), the
\* cursor positions lo..hi of the documents it carried and the rows it wrote.
Stmt(kind, outcome, lo, hi, nrows) ==
  [ kind |-> kind, outcome |-> outcome, lo |-> lo, hi |-> hi, nrows |-> nrows ]

\* forEachDocumentBatchInCollection: the next batch after `done` documents.
NextBatch(store, done, size) == SubSeq(store, done + 1, Min(done + size, Len(store)))

\* ------------------------------------------------------------- formatters
\* formatters.Posts
\* Faulty variant: only the value true is replaced, false stays a boolean.
FormatPostTrueOnly(document, now) ==
  LET d1 == IF document.scoreExceeded75Date = BoolVal(1)
              THEN [ document EXCEPT !.scoreExceeded75Date = DateVal(now) ]
              ELSE document
  IN  IF Falsy(d1.title) THEN [ d1 EXCEPT !.title = StrVal("") ] ELSE d1
\* The code.
FormatPost(document, now) ==
  LET d1 == IF document.scoreExceeded75Date.type = "boolean"
              THEN [ document EXCEPT !.scoreExceeded75Date = DateVal(now) ]
              ELSE document
  IN  IF Falsy(d1.title) THEN [ d1 EXCEPT !.title = StrVal("") ] ELSE d1

\* const formatData = formatters[collectionName] ?? ((document) => document)
\* Faulty variant: the formatter of Posts is applied to every collection.
formatDataAlways(name, document, now) == FormatPost(document, now)
\* The code.
formatData(name, document, now) ==
  IF name = "Posts" THEN FormatPost(document, now) ELSE document

\* errorIds = errorIds.concat(documents.map(({_id}) => _id))
\* Faulty variant: assignment instead of concat, earlier failures are lost.
RecordErrorsOverwrite(ids, docs) == [ i \in 1..Len(docs) |-> docs[i]._id ]
\* The code.
RecordErrors(ids, docs) == ids \o [ i \in 1..Len(docs) |-> docs[i]._id ]

\* -------------------------------------------------------------------- Init
\* ------------------------------------------------------ the server: values
MaxCutovers == 2
MaxElapsed == 2
NumInstances == 2

\* The process instances of the deployment.
Instances == 1..NumInstances

Backends == { "mongo", "pg" }
ForumTypes == { "EAForum", "LessWrong" }

\* Collections, in registration order, with the class of each.
Collections ==
  << [ name |-> "Posts", class |-> "SwitchingCollection" ],
     [ name |-> "Comments", class |-> "PgCollection" ],
     [ name |-> "Users", class |-> "MongoCollection" ] >>

\* The backend a Switching Collection routes to before it has read the record.
DefaultTarget == "mongo"

PollOutcomes == { "ok", "unreachable" }

\* No operation yet.  The fields of an operation: kind; backend, the one it
\* was dispatched to; poll and attached, lastPoll and hasRead at dispatch;
\* observed, a poll changed the target while it was in flight; ranOn, the
\* backend it completed against, "pending" while in flight.
NoOp == [ kind |-> "none", backend |-> "none", poll |-> "none",
          attached |-> FALSE, observed |-> FALSE, ranOn |-> "none" ]

Pending(o) == o.ranOn = "pending"

\* serverStartup has been called in every process and awaits the Mongo
\* connection; the collections are constructed.
InitServer ==
  /\ forumTypeSetting \in ForumTypes
  /\ postgresUrl \in BOOLEAN
  /\ shellMode \in BOOLEAN
  /\ isAnyTest \in BOOLEAN
  /\ lockState \in Backends
  /\ cutovers = 0
  /\ elapsed = 0
  /\ phase = [ i \in Instances |-> "connectMongo" ]
  /\ sqlClient = [ i \in Instances |-> FALSE ]
  /\ calls = [ i \in Instances |-> << >> ]
  /\ target = [ i \in Instances |-> DefaultTarget ]
  /\ polling = [ i \in Instances |-> FALSE ]
  /\ pollDue = [ i \in Instances |-> FALSE ]
  /\ lastPoll = [ i \in Instances |-> "none" ]
  /\ hasRead = [ i \in Instances |-> FALSE ]
  /\ op = [ i \in Instances |-> NoOp ]

\* The server as mongoToSql sees it: a shell of a LessWrong process.
ServerAtRest ==
  /\ InitServer
  /\ forumTypeSetting = "LessWrong"
  /\ postgresUrl
  /\ shellMode
  /\ ~isAnyTest
  /\ lockState = "mongo"

\* -------------------------------------------------------- the form: values
MaxSubmits == 2
MaxUpdates == 2
MaxRegistrations == 3

\* Paths of the fields of the form.
Paths == { "title", "body" }

\* The value of a field: a string, where "" is empty, or null.
Null == "null"
FieldValues == { "", "x" }

isEmptyValue(value) == value = "" \/ value = Null

\* The lists of callbacks of a form, and the callbacks components register.
Lists == { "submit", "success", "failure" }
Callbacks == { "f", "g" }

\* newValues: the keys in the order of Object.keys, each with its value.
NewValues ==
  { << << p, v >> >> : p \in Paths, v \in FieldValues }
  \cup UNION { { << << p, v >>, << q, w >> >> :
                     q \in Paths \ { p }, v \in FieldValues, w \in FieldValues } :
                 p \in Paths }

\* An updater passed to setState: disabled (submitForm and the mutation
\* callbacks), values (updateCurrentValues) or clear (clearForm).
Updater(kind, flag, values) == [ kind |-> kind, flag |-> flag, values |-> values ]

\* The initial state of the component (getInitialStateFromProps).
initialDocument == [ p \in Paths |-> "old" ]
NoValues == [ p \in {} |-> "" ]

\* The form is mounted; nothing has been done with it.
InitForm ==
  /\ autoSubmit \in BOOLEAN
  /\ disabled = FALSE
  /\ currentValues = NoValues
  /\ currentDocument = initialDocument
  /\ deletedValues = << >>
  /\ stateQueue = << >>
  /\ submitted = 0
  /\ awaitingData = 0
  /\ inFlight = 0
  /\ updates = 0
  /\ formCallbacks = [ l \in Lists |-> << >> ]
  /\ registrations = << >>
  /\ cleanupRuns = << >>

\* No form is looked at.
FormAtRest == InitForm /\ ~autoSubmit

\* ---------------------------------------------------- mongoToSql: initial
Init ==
  /\ ServerAtRest
  /\ FormAtRest
  /\ collectionName \in CollectionNames
  /\ schemaFields \in Schemas
  /\ collIndexes \in IndexLists
  /\ \E n \in DocCounts : source = StoredCollection(n)
  /\ dest = << >>
  /\ clock = 0
  /\ run = 0
  /\ pc = "idle"
  /\ table = NoTable
  /\ skippedFields = {}
  /\ idx = 0
  /\ cursor = 0
  /\ documents = << >>
  /\ count = 0
  /\ errorIds = << >>
  /\ error = NoError
  /\ stmts = << >>
  /\ log = << >>
  /\ rowsAtStart = 0

inputs == << collectionName, schemaFields, collIndexes >>

\* ----------------------------------------------------------------- actions
\* Lines 72-82 and the call of forEachDocumentBatchInCollection: what runs
\* once the table exists, up to the first await of the index loop or of the
\* cursor.
\* Faulty variant: the copy starts without the indexes being created.
AfterTableCopyFirst(t, lg) ==
  /\ pc' = "fetch"
  /\ idx' = 0
  /\ log' = lg \o << "...Copying data" >>
\* The code.
AfterTable(t, lg) ==
  LET lg1 == Append(lg, "...Creating indexes") IN
  IF Len(t.indexes) = 0
    THEN /\ pc' = "fetch"
         /\ idx' = 0
         /\ log' = lg1 \o << "...Warning: 0 indexes found", "...Copying data" >>
    ELSE /\ pc' = "createIndex"
         /\ idx' = 1
         /\ log' = lg1

\* Lines 62-70, up to the await: compile CREATE TABLE and send it; an error
\* thrown by the compilation is logged and thrown again.
\* Faulty variant: the catch block does not throw again and the run goes on.
TryCreateTableSwallow(t, lg) ==
  IF CreateTableCompiles(t)
    THEN /\ pc' = "createTable"
         /\ idx' = 0
         /\ error' = NoError
         /\ log' = lg
    ELSE /\ AfterTable(t, Append(lg, "Failed to create table"))
         /\ error' = NoError
\* The code.
TryCreateTable(t, lg) ==
  IF CreateTableCompiles(t)
    THEN /\ pc' = "createTable"
         /\ idx' = 0
         /\ error' = NoError
         /\ log' = lg
    ELSE /\ pc' = "failed"
         /\ idx' = 0
         /\ error' = "SchemaError"
         /\ log' = Append(lg, "Failed to create table")

\* Lines 52-55: the schema fields that did not become table fields.
SkippedFields(schema, t) == { f \in DOMAIN schema : f \notin t.fields }

\* Lines 42-60: the console output up to "...Creating table", with the
\* warning of lines 56-58 when fields were skipped.
\* Faulty variant: no warning.
SchemaLogSilent(skipped) ==
  << "=== Migrating collection", "...Looking up collection",
     "...Building schema", "...Migrating fields", "...Creating table" >>
\* The code.
SchemaLog(skipped) ==
  << "=== Migrating collection", "...Looking up collection",
     "...Building schema", "...Migrating fields" >>
  \o (IF skipped # {} THEN << "......Warning: Skipped fields" >> ELSE << >>)
  \o << "...Creating table" >>

\* Lines 41-64: from the call of mongoToSql to the await on CREATE TABLE.
\* Faulty variant: the result of getCollection is not looked at.
BeginUnchecked ==
  /\ pc \in { "idle", "done", "failed" }
  /\ run < MaxRuns
  /\ run' = run + 1
  /\ clock' = clock + 1
  /\ rowsAtStart' = Len(dest)
  /\ stmts' = << >>
  /\ errorIds' = << >>
  /\ count' = 0
  /\ cursor' = 0
  /\ documents' = << >>
  /\ LET t == TableFromCollection(schemaFields, collIndexes)
         skipped == SkippedFields(schemaFields, t)
         lg == SchemaLog(skipped)
     IN  /\ table' = t
         /\ skippedFields' = skipped
         /\ TryCreateTable(t, lg)
  /\ UNCHANGED << inputs, source, dest >>
\* The code.
Begin ==
  /\ pc \in { "idle", "done", "failed" }
  /\ run < MaxRuns
  /\ run' = run + 1
  /\ clock' = clock + 1
  /\ rowsAtStart' = Len(dest)
  /\ stmts' = << >>
  /\ errorIds' = << >>
  /\ count' = 0
  /\ cursor' = 0
  /\ documents' = << >>
  /\ IF collectionName \notin RegisteredCollections
       THEN /\ pc' = "failed"
            /\ idx' = 0
            /\ error' = "Invalid collection"
            /\ table' = NoTable
            /\ skippedFields' = {}
            /\ log' = << "=== Migrating collection", "...Looking up collection" >>
       ELSE LET t == TableFromCollection(schemaFields, collIndexes)
                skipped == SkippedFields(schemaFields, t)
                lg == SchemaLog(skipped)
            IN  /\ table' = t
                /\ skippedFields' = skipped
                /\ TryCreateTable(t, lg)
  /\ UNCHANGED << inputs, source, dest >>

\* Lines 66-70: the catch block around CREATE TABLE, entered with the error
\* e of the rejected statement.
\* Faulty variant: a new error is thrown in place of e.
CreateTableRejectedWrapped(e) ==
  /\ pc' = "failed"
  /\ idx' = idx
  /\ error' = "Failed to create table"
  /\ log' = Append(log, "Failed to create table")
\* The code.
CreateTableRejected(e) ==
  /\ pc' = "failed"
  /\ idx' = idx
  /\ error' = e
  /\ log' = Append(log, "Failed to create table")

\* Lines 65-70: the CREATE TABLE statement resolves or rejects.
CreateTableDone ==
  /\ pc = "createTable"
  /\ \E r \in SqlOutcomes :
       /\ stmts' = Append(stmts, Stmt("CREATE TABLE", r, 0, 0, 0))
       /\ IF r = "ok"
            THEN /\ AfterTable(table, log)
                 /\ error' = error
            ELSE CreateTableRejected(r)
  /\ UNCHANGED << inputs, source, dest, clock, run, table, skippedFields, cursor,
                  documents, count, errorIds, rowsAtStart >>

\* Lines 77-82: the index loop moves on after a CREATE INDEX that resolved.
NextIndex(lg) ==
  IF idx < Len(table.indexes)
    THEN /\ pc' = pc
         /\ idx' = idx + 1
         /\ log' = lg
    ELSE /\ pc' = "fetch"
         /\ idx' = idx
         /\ log' = Append(lg, "...Copying data")

\* Lines 77-80: a CREATE INDEX statement rejects with e.  The loop has no
\* try/catch, so the rejection leaves mongoToSql.
\* Faulty variant: the rejection is caught and logged, the loop goes on.
CreateIndexRejectedCaught(e) ==
  /\ NextIndex(Append(log, "Failed to create index"))
  /\ error' = error
\* The code.
CreateIndexRejected(e) ==
  /\ pc' = "failed"
  /\ idx' = idx
  /\ error' = e
  /\ log' = log

\* Lines 77-80: one CREATE INDEX statement resolves or rejects.
CreateIndexDone ==
  /\ pc = "createIndex"
  /\ \E r \in SqlOutcomes :
       /\ stmts' = Append(stmts, Stmt("CREATE INDEX", r, idx, idx, 0))
       /\ IF r = "ok"
            THEN /\ NextIndex(log)
                 /\ error' = error
            ELSE CreateIndexRejected(r)
  /\ UNCHANGED << inputs, source, dest, clock, run, table, skippedFields, cursor,
                  documents, count, errorIds, rowsAtStart >>

\* Lines 93-97: the cursor delivers a batch and the callback runs up to the
\* await on the INSERT.  The formatter rewrites the fetched objects in place;
\* these are copies of the stored documents, which stay as they are.
\* Faulty variant: once a batch has failed the callback returns at once.
FetchBatchSkipAfterError ==
  /\ pc = "fetch"
  /\ cursor < Len(source)
  /\ LET batch == NextBatch(source, cursor, batchSize)
     IN  /\ cursor' = cursor + Len(batch)
         /\ IF Len(errorIds) > 0
              THEN /\ documents' = << >>
                   /\ pc' = "fetch"
              ELSE /\ documents' = [ i \in 1..Len(batch) |->
                                       formatData(collectionName, batch[i], clock) ]
                   /\ pc' = "insert"
  /\ count' = count + batchSize
  /\ log' = Append(log, "......Migrating documents")
  /\ UNCHANGED << inputs, source, dest, clock, run, table, skippedFields, idx,
                  errorIds, error, stmts, rowsAtStart >>
\* Faulty variant: the formatted documents are saved to the collection.
FetchBatchWriteBack ==
  /\ pc = "fetch"
  /\ cursor < Len(source)
  /\ LET batch == NextBatch(source, cursor, batchSize)
         formatted == [ i \in 1..Len(batch) |->
                          formatData(collectionName, batch[i], clock) ]
     IN  /\ documents' = formatted
         /\ source' = [ i \in 1..Len(source) |->
                          IF i > cursor /\ i <= cursor + Len(batch)
                            THEN formatted[i - cursor] ELSE source[i] ]
         /\ cursor' = cursor + Len(batch)
  /\ count' = count + batchSize
  /\ log' = Append(log, "......Migrating documents")
  /\ pc' = "insert"
  /\ UNCHANGED << inputs, dest, clock, run, table, skippedFields, idx,
                  errorIds, error, stmts, rowsAtStart >>
\* Faulty variant: the callback does not await the INSERT, so the cursor
\* moves on while the statement is in flight.
FetchBatchNoAwait ==
  /\ pc = "fetch"
  /\ cursor < Len(source)
  /\ LET batch == NextBatch(source, cursor, batchSize)
     IN  /\ documents' = [ i \in 1..Len(batch) |->
                             formatData(collectionName, batch[i], clock) ]
         /\ cursor' = cursor + Len(batch)
  /\ count' = count + batchSize
  /\ log' = Append(log, "......Migrating documents")
  /\ pc' = "fetch"
  /\ UNCHANGED << inputs, source, dest, clock, run, table, skippedFields, idx,
                  errorIds, error, stmts, rowsAtStart >>
\* The callback of the code.
FetchBatch ==
  /\ pc = "fetch"
  /\ cursor < Len(source)
  /\ LET batch == NextBatch(source, cursor, batchSize)
     IN  /\ documents' = [ i \in 1..Len(batch) |->
                             formatData(collectionName, batch[i], clock) ]
         /\ cursor' = cursor + Len(batch)
  /\ count' = count + batchSize
  /\ log' = Append(log, "......Migrating documents")
  /\ pc' = "insert"
  /\ UNCHANGED << inputs, source, dest, clock, run, table, skippedFields, idx,
                  errorIds, error, stmts, rowsAtStart >>

\* Lines 100-104: the catch block around the INSERT, entered with the error e
\* of the rejected statement; the callback then returns normally.
\* Faulty variant: the catch block throws e again.
InsertRejectedRethrow(e) ==
  /\ errorIds' = RecordErrors(errorIds, documents)
  /\ log' = Append(log, "ERROR IMPORTING DOCUMENT BATCH")
  /\ pc' = "failed"
  /\ error' = e
\* The code.
InsertRejected(e) ==
  /\ errorIds' = RecordErrors(errorIds, documents)
  /\ log' = Append(log, "ERROR IMPORTING DOCUMENT BATCH")
  /\ pc' = "fetch"
  /\ error' = error

\* Lines 96-104: the INSERT resolves or rejects.  A statement with more than
\* maxParameters parameters cannot be sent and always rejects.
\* Faulty variant: a rejected INSERT is sent again.
InsertDoneRetry ==
  /\ pc = "insert"
  /\ \E r \in SqlOutcomes :
       LET rows == [ i \in 1..Len(documents) |-> Row(documents[i], table.fields) ]
           res == ExecInsert(dest, rows, conflictStrategy)
           lo == cursor - Len(documents) + 1
           out == IF r = "ok" /\ (InsertArgs(documents, table) > maxParameters \/ ~res.ok)
                    THEN "PostgresError" ELSE r
       IN  IF out = "ok"
             THEN /\ dest' = res.rows
                  /\ stmts' = Append(stmts, Stmt("INSERT", out, lo, cursor, res.inserted))
                  /\ errorIds' = errorIds
                  /\ log' = log
                  /\ pc' = "fetch"
                  /\ error' = error
                  /\ documents' = << >>
             ELSE /\ dest' = dest
                  /\ stmts' = Append(stmts, Stmt("INSERT", out, lo, cursor, 0))
                  /\ errorIds' = errorIds
                  /\ log' = Append(log, "ERROR IMPORTING DOCUMENT BATCH")
                  /\ pc' = "insert"
                  /\ error' = error
                  /\ documents' = documents
  /\ UNCHANGED << inputs, source, clock, run, table, skippedFields, idx, cursor,
                  count, rowsAtStart >>
\* The code.
InsertDone ==
  /\ pc = "insert"
  /\ \E r \in SqlOutcomes :
       LET rows == [ i \in 1..Len(documents) |-> Row(documents[i], table.fields) ]
           res == ExecInsert(dest, rows, conflictStrategy)
           lo == cursor - Len(documents) + 1
           out == IF r = "ok" /\ (InsertArgs(documents, table) > maxParameters \/ ~res.ok)
                    THEN "PostgresError" ELSE r
       IN  IF out = "ok"
             THEN /\ dest' = res.rows
                  /\ stmts' = Append(stmts, Stmt("INSERT", out, lo, cursor, res.inserted))
                  /\ errorIds' = errorIds
                  /\ log' = log
                  /\ pc' = "fetch"
                  /\ error' = error
             ELSE /\ dest' = dest
                  /\ stmts' = Append(stmts, Stmt("INSERT", out, lo, cursor, 0))
                  /\ InsertRejected(out)
  /\ documents' = << >>
  /\ UNCHANGED << inputs, source, clock, run, table, skippedFields, idx, cursor,
                  count, rowsAtStart >>

\* Lines 108-112: the cursor is exhausted and mongoToSql returns.
\* Faulty variant: a non-empty errorIds makes mongoToSql throw.
FinishThrowOnErrors ==
  /\ pc = "fetch"
  /\ cursor >= Len(source)
  /\ IF Len(errorIds) > 0
       THEN /\ log' = Append(log, "...import errors")
            /\ pc' = "failed"
            /\ error' = "Import errors"
       ELSE /\ log' = Append(log, "=== Finished migrating collection")
            /\ pc' = "done"
            /\ error' = error
  /\ UNCHANGED << inputs, source, dest, clock, run, table, skippedFields, idx,
                  cursor, documents, count, errorIds, stmts, rowsAtStart >>
\* The code.
Finish ==
  /\ pc = "fetch"
  /\ cursor >= Len(source)
  /\ log' = log \o (IF Len(errorIds) > 0 THEN << "...import errors" >> ELSE << >>)
                \o << "=== Finished migrating collection" >>
  /\ pc' = "done"
  /\ error' = error
  /\ UNCHANGED << inputs, source, dest, clock, run, table, skippedFields, idx,
                  cursor, documents, count, errorIds, stmts, rowsAtStart >>

Next ==
  \/ Begin /\ UNCHANGED << svars, fvars >>
  \/ CreateTableDone /\ UNCHANGED << svars, fvars >>
  \/ CreateIndexDone /\ UNCHANGED << svars, fvars >>
  \/ FetchBatch /\ UNCHANGED << svars, fvars >>
  \/ InsertDone /\ UNCHANGED << svars, fvars >>
  \/ Finish /\ UNCHANGED << svars, fvars >>

Spec == Init /\ [][Next]_vars

\* Every statement sent to the backend is answered, the cursor delivers the
\* next batch or its end, and the code after an await runs.
Fairness ==
  /\ WF_vars(CreateTableDone /\ UNCHANGED << svars, fvars >>)
  /\ WF_vars(CreateIndexDone /\ UNCHANGED << svars, fvars >>)
  /\ WF_vars(FetchBatch /\ UNCHANGED << svars, fvars >>)
  /\ WF_vars(InsertDone /\ UNCHANGED << svars, fvars >>)
  /\ WF_vars(Finish /\ UNCHANGED << svars, fvars >>)

\* Posts, or a name with no collection, with a schema that has no usable
\* field or the named fields only.
InitLive ==
  /\ Init
  /\ collectionName \in { "Posts", "Nope" }
  /\ schemaFields \in { ZeroUsableSchema, SchemaOfWidth(3) }

SpecLive == InitLive /\ [][Next]_vars /\ Fairness

\* ----------------------------------------------------- the server: actions
IsPgBacked(c) == c.class \in { "PgCollection", "SwitchingCollection" }
IsSwitching(c) == c.class = "SwitchingCollection"

Call(fn, on) == [ fn |-> fn, on |-> on ]

\* Lines 215-219: buildPostgresTable on every PgCollection and
\* SwitchingCollection, in the order of Collections.
BuildCalls ==
  LET cs == SelectSeq(Collections, IsPgBacked)
  IN  [ k \in 1..Len(cs) |-> Call("buildPostgresTable", cs[k].name) ]

\* Lines 223-227: startPolling on every SwitchingCollection.
\* Faulty variant: the loop tests for the wrong class and finds nothing.
PollCallsNone == << >>
\* The code.
PollCalls ==
  LET cs == SelectSeq(Collections, IsSwitching)
  IN  [ k \in 1..Len(cs) |-> Call("startPolling", cs[k].name) ]

\* Lines 233-241: the shell, or the web server outside tests.
ServeCalls ==
  IF shellMode THEN << Call("initShell", "") >>
  ELSE IF ~isAnyTest THEN << Call("startWebserver", "") >>
  ELSE << >>

\* Lines 194-201: the Postgres connection failed; only EAForum exits.
PostgresFailed(i) ==
  /\ phase' = [ phase EXCEPT ![i] = IF forumTypeSetting = "EAForum"
                                      THEN "exited" ELSE "refreshSettings" ]
  /\ sqlClient' = sqlClient

\* Lines 161-185: client.connect() resolves or rejects.  On success the
\* connection string is looked at and getBranchDbName is awaited.
ConnectMongoDone(i) ==
  /\ phase[i] = "connectMongo"
  /\ \E connected \in BOOLEAN :
       IF ~connected
         THEN /\ phase' = [ phase EXCEPT ![i] = "exited" ]
              /\ sqlClient' = sqlClient
         ELSE IF ~postgresUrl
           THEN PostgresFailed(i)
           ELSE /\ phase' = [ phase EXCEPT ![i] = "connectPostgres" ]
                /\ sqlClient' = sqlClient
  /\ UNCHANGED << config, lockState, cutovers, elapsed, calls, target, polling,
                  pollDue, lastPoll, hasRead, op >>

\* Lines 185-201: getBranchDbName and createSqlConnection resolve or reject.
ConnectPostgresDone(i) ==
  /\ phase[i] = "connectPostgres"
  /\ \E connected \in BOOLEAN :
       IF connected
         THEN /\ sqlClient' = [ sqlClient EXCEPT ![i] = TRUE ]
              /\ phase' = [ phase EXCEPT ![i] = "refreshSettings" ]
         ELSE PostgresFailed(i)
  /\ UNCHANGED << config, lockState, cutovers, elapsed, calls, target, polling,
                  pollDue, lastPoll, hasRead, op >>

\* Lines 205-211: refreshSettingsCaches resolves, runStartupFunctions starts.
SettingsLoaded(i) ==
  /\ phase[i] = "refreshSettings"
  /\ phase' = [ phase EXCEPT ![i] = "runStartup" ]
  /\ UNCHANGED << config, lockState, cutovers, elapsed, sqlClient, calls, target,
                  polling, pollDue, lastPoll, hasRead, op >>

\* Lines 211-241: runStartupFunctions resolves; the rest of serverStartup runs
\* without an await.  startPolling issues the first poll and returns.
\* Faulty variant: startPolling is not called.
StartupFunctionsDoneNoPolling(i) ==
  /\ phase[i] = "runStartup"
  /\ calls' = [ calls EXCEPT ![i] = BuildCalls \o ServeCalls ]
  /\ phase' = [ phase EXCEPT ![i] = IF shellMode THEN "shell"
                                      ELSE IF ~isAnyTest THEN "webserver"
                                      ELSE "started" ]
  /\ UNCHANGED << config, lockState, cutovers, elapsed, sqlClient, target,
                  polling, pollDue, lastPoll, hasRead, op >>
\* Faulty variant: the polling is started before the tables are built.
StartupFunctionsDonePollFirst(i) ==
  /\ phase[i] = "runStartup"
  /\ calls' = [ calls EXCEPT ![i] = PollCalls \o BuildCalls \o ServeCalls ]
  /\ polling' = [ polling EXCEPT ![i] = PollCalls # << >> ]
  /\ pollDue' = [ pollDue EXCEPT ![i] = PollCalls # << >> ]
  /\ phase' = [ phase EXCEPT ![i] = IF shellMode THEN "shell"
                                      ELSE IF ~isAnyTest THEN "webserver"
                                      ELSE "started" ]
  /\ UNCHANGED << config, lockState, cutovers, elapsed, sqlClient, target,
                  lastPoll, hasRead, op >>
\* Faulty variant: the lock record is initialised on startup.
StartupFunctionsDoneInitLock(i) ==
  /\ phase[i] = "runStartup"
  /\ calls' = [ calls EXCEPT ![i] = BuildCalls \o PollCalls \o ServeCalls ]
  /\ polling' = [ polling EXCEPT ![i] = PollCalls # << >> ]
  /\ pollDue' = [ pollDue EXCEPT ![i] = PollCalls # << >> ]
  /\ phase' = [ phase EXCEPT ![i] = IF shellMode THEN "shell"
                                      ELSE IF ~isAnyTest THEN "webserver"
                                      ELSE "started" ]
  /\ lockState' = DefaultTarget
  /\ UNCHANGED << config, cutovers, elapsed, sqlClient, target, lastPoll,
                  hasRead, op >>
\* The code.
StartupFunctionsDone(i) ==
  /\ phase[i] = "runStartup"
  /\ calls' = [ calls EXCEPT ![i] = BuildCalls \o PollCalls \o ServeCalls ]
  /\ polling' = [ polling EXCEPT ![i] = PollCalls # << >> ]
  /\ pollDue' = [ pollDue EXCEPT ![i] = PollCalls # << >> ]
  /\ phase' = [ phase EXCEPT ![i] = IF shellMode THEN "shell"
                                      ELSE IF ~isAnyTest THEN "webserver"
                                      ELSE "started" ]
  /\ UNCHANGED << config, lockState, cutovers, elapsed, sqlClient, target,
                  lastPoll, hasRead, op >>

\* A poll read the lock record: the collection routes to the backend it names.
PollRead(i) ==
  /\ target' = [ target EXCEPT ![i] = lockState ]
  /\ hasRead' = [ hasRead EXCEPT ![i] = TRUE ]
  /\ lastPoll' = [ lastPoll EXCEPT ![i] = "ok" ]
  /\ op' = [ op EXCEPT ![i].observed =
                @ \/ (Pending(op[i]) /\ target[i] # lockState) ]
  /\ polling' = polling

\* A poll could not reach the lock table: the last-known backend is kept.
\* Faulty variant: the collection falls back to its default and stops polling.
PollUnreachableReset(i) ==
  /\ target' = [ target EXCEPT ![i] = DefaultTarget ]
  /\ lastPoll' = [ lastPoll EXCEPT ![i] = "unreachable" ]
  /\ polling' = [ polling EXCEPT ![i] = FALSE ]
  /\ UNCHANGED << hasRead, op >>
\* As the specification describes it.
PollUnreachable(i) ==
  /\ lastPoll' = [ lastPoll EXCEPT ![i] = "unreachable" ]
  /\ UNCHANGED << target, polling, hasRead, op >>

\* The poll of a process resolves.  Without a Postgres client the lock table
\* cannot be reached.
PollDone(i) ==
  /\ phase[i] # "exited"
  /\ polling[i]
  /\ pollDue[i]
  /\ \E r \in PollOutcomes :
       /\ r = "ok" => sqlClient[i]
       /\ IF r = "ok" THEN PollRead(i) ELSE PollUnreachable(i)
  /\ pollDue' = [ pollDue EXCEPT ![i] = FALSE ]
  /\ UNCHANGED << config, lockState, cutovers, elapsed, phase, sqlClient, calls >>

\* One polling interval passes: every polling process polls again.  The
\* polls of an interval resolve within it.
Tick ==
  /\ \A i \in Instances : ~pollDue[i] \/ phase[i] = "exited"
  /\ elapsed' = Min(elapsed + 1, MaxElapsed)
  /\ pollDue' = [ i \in Instances |-> polling[i] /\ phase[i] # "exited" ]
  /\ UNCHANGED << config, lockState, cutovers, phase, sqlClient, calls, target,
                  polling, lastPoll, hasRead, op >>

\* The operator flips the lock record.
Cutover(b) ==
  /\ cutovers < MaxCutovers
  /\ b # lockState
  /\ lockState' = b
  /\ cutovers' = cutovers + 1
  /\ elapsed' = 0
  /\ UNCHANGED << config, phase, sqlClient, calls, target, polling, pollDue,
                  lastPoll, hasRead, op >>

\* A request or a shell command reads or writes the collection: the
\* operation takes the backend the collection routes to at this moment.
Dispatch(i, kind) ==
  /\ phase[i] \in { "webserver", "shell" }
  /\ ~Pending(op[i])
  /\ op' = [ op EXCEPT ![i] =
                [ kind |-> kind, backend |-> target[i], poll |-> lastPoll[i],
                  attached |-> hasRead[i], observed |-> FALSE,
                  ranOn |-> "pending" ] ]
  /\ UNCHANGED << config, lockState, cutovers, elapsed, phase, sqlClient, calls,
                  target, polling, pollDue, lastPoll, hasRead >>

\* The operation completes against the backend it was dispatched to.
\* Faulty variant: it completes against the backend selected at that time.
CompleteOnCurrent(i) ==
  /\ Pending(op[i])
  /\ op' = [ op EXCEPT ![i].ranOn = target[i] ]
  /\ UNCHANGED << config, lockState, cutovers, elapsed, phase, sqlClient, calls,
                  target, polling, pollDue, lastPoll, hasRead >>
\* As the specification describes it.
Complete(i) ==
  /\ Pending(op[i])
  /\ op' = [ op EXCEPT ![i].ranOn = op[i].backend ]
  /\ UNCHANGED << config, lockState, cutovers, elapsed, phase, sqlClient, calls,
                  target, polling, pollDue, lastPoll, hasRead >>

\* mongoToSql is not running.
MigrationAtRest ==
  /\ collectionName = "Posts"
  /\ schemaFields = NamedSchema
  /\ collIndexes = << >>
  /\ source = << >>
  /\ dest = << >>
  /\ clock = 0
  /\ run = 0
  /\ pc = "idle"
  /\ table = NoTable
  /\ skippedFields = {}
  /\ idx = 0
  /\ cursor = 0
  /\ documents = << >>
  /\ count = 0
  /\ errorIds = << >>
  /\ error = NoError
  /\ stmts = << >>
  /\ log = << >>
  /\ rowsAtStart = 0

InitServing == MigrationAtRest /\ InitServer /\ FormAtRest

\* The processes share nothing but the lock record: the operations of one
\* process are followed, its peers are not started.
Followed == { 1 }

NextServing ==
  \/ \E i \in Followed : ConnectMongoDone(i) /\ UNCHANGED << mvars, fvars >>
  \/ \E i \in Followed : ConnectPostgresDone(i) /\ UNCHANGED << mvars, fvars >>
  \/ \E i \in Followed : SettingsLoaded(i) /\ UNCHANGED << mvars, fvars >>
  \/ \E i \in Followed : StartupFunctionsDone(i) /\ UNCHANGED << mvars, fvars >>
  \/ \E i \in Followed : PollDone(i) /\ UNCHANGED << mvars, fvars >>
  \/ Tick /\ UNCHANGED << mvars, fvars >>
  \/ \E b \in Backends : Cutover(b) /\ UNCHANGED << mvars, fvars >>
  \/ \E i \in Followed, kind \in { "read", "write" } :
       Dispatch(i, kind) /\ UNCHANGED << mvars, fvars >>
  \/ \E i \in Followed : Complete(i) /\ UNCHANGED << mvars, fvars >>

SpecServing == InitServing /\ [][NextServing]_vars

\* A deployment of web server processes that all poll the lock record; the
\* operations on the collections are left out.
InitPeers ==
  /\ MigrationAtRest
  /\ FormAtRest
  /\ InitServer
  /\ postgresUrl
  /\ ~shellMode
  /\ ~isAnyTest

NextPeers ==
  \/ \E i \in Instances : ConnectMongoDone(i) /\ UNCHANGED << mvars, fvars >>
  \/ \E i \in Instances : ConnectPostgresDone(i) /\ UNCHANGED << mvars, fvars >>
  \/ \E i \in Instances : SettingsLoaded(i) /\ UNCHANGED << mvars, fvars >>
  \/ \E i \in Instances : StartupFunctionsDone(i) /\ UNCHANGED << mvars, fvars >>
  \/ \E i \in Instances : PollDone(i) /\ UNCHANGED << mvars, fvars >>
  \/ Tick /\ UNCHANGED << mvars, fvars >>
  \/ \E b \in Backends : Cutover(b) /\ UNCHANGED << mvars, fvars >>

SpecPeers == InitPeers /\ [][NextPeers]_vars

\* ------------------------------------------------------- the form: actions
MaxCleanupRuns == 2

\* lodash unset, set and without, on a document with top-level paths.
unset(object, path) == [ q \in DOMAIN object \ { path } |-> object[q] ]
set(object, path, value) ==
  [ q \in DOMAIN object \cup { path } |-> IF q = path THEN value ELSE object[q] ]
without(array, value) == SelectSeq(array, LAMBDA e : e # value)

\* Lines 706-731: the forEach over the keys of newValues.  Every iteration
\* takes deletedValues from prevState.
RECURSIVE ApplyNewValues(_, _, _)
ApplyNewValues(newState, prevDeleted, newValues) ==
  IF newValues = << >> THEN newState
  ELSE LET path == Head(newValues)[1]
           value == Head(newValues)[2]
           next ==
             IF isEmptyValue(value)
               THEN [ currentValues |-> unset(newState.currentValues, path),
                      currentDocument |-> set(newState.currentDocument, path, Null),
                      deletedValues |-> Append(prevDeleted, path),
                      disabled |-> newState.disabled ]
               ELSE [ currentValues |-> set(newState.currentValues, path, value),
                      currentDocument |-> set(newState.currentDocument, path, value),
                      deletedValues |-> without(prevDeleted, path),
                      disabled |-> newState.disabled ]
       IN  ApplyNewValues(next, prevDeleted, Tail(newValues))

\* One updater applied to the state before it.
ApplyUpdater(prevState, u) ==
  CASE u.kind = "disabled" -> [ prevState EXCEPT !.disabled = u.flag ]
    [] u.kind = "clear" ->
         [ currentValues |-> NoValues, currentDocument |-> initialDocument,
           deletedValues |-> << >>, disabled |-> FALSE ]
    [] OTHER -> ApplyNewValues(prevState, prevState.deletedValues, u.values)

\* React processes the queued updaters in order.
RECURSIVE ApplyQueue(_, _)
ApplyQueue(prevState, queue) ==
  IF queue = << >> THEN prevState
  ELSE ApplyQueue(ApplyUpdater(prevState, Head(queue)), Tail(queue))

ValuesUpdaters(queue) == SelectSeq(queue, LAMBDA u : u.kind = "values")

\* Lines 994-1008: n calls of submitForm made while this.state.disabled is
\* isDisabled and queue is pending; each stops at the test of line 999 or
\* queues disabled: true and awaits getData.
SubmitFormCalls(n, isDisabled, queue) ==
  IF isDisabled
    THEN /\ stateQueue' = queue
         /\ UNCHANGED << submitted, awaitingData >>
    ELSE /\ stateQueue' = queue \o [ k \in 1..n |-> Updater("disabled", TRUE, << >>) ]
         /\ submitted' = submitted + n
         /\ awaitingData' = awaitingData + n

\* submitForm is called: the submit event, Ctrl+Enter or a child component.
SubmitForm ==
  /\ submitted + Len(ValuesUpdaters(stateQueue)) < MaxSubmits
  /\ SubmitFormCalls(1, disabled, stateQueue)
  /\ UNCHANGED << autoSubmit, disabled, currentValues, currentDocument,
                  deletedValues, inFlight, updates, formCallbacks,
                  registrations, cleanupRuns >>

\* Lines 1008-1026 and 262-299: getData resolves and the mutation is sent, or
\* getData, a submit callback or props.submitCallback throws and submitForm
\* rejects.
GetDataDone ==
  /\ awaitingData > 0
  /\ awaitingData' = awaitingData - 1
  /\ \E resolved \in BOOLEAN :
       inFlight' = IF resolved THEN inFlight + 1 ELSE inFlight
  /\ UNCHANGED << autoSubmit, disabled, currentValues, currentDocument,
                  deletedValues, stateQueue, submitted, updates, formCallbacks,
                  registrations, cleanupRuns >>

\* Lines 1016-1034, 917-950 and 883-893: the mutation resolves
\* (mutationSuccessCallback, which calls clearForm) or rejects
\* (mutationErrorCallback).
MutationDone ==
  /\ inFlight > 0
  /\ inFlight' = inFlight - 1
  /\ \E resolved \in BOOLEAN :
       stateQueue' = IF resolved
                       THEN stateQueue \o << Updater("disabled", FALSE, << >>),
                                             Updater("clear", FALSE, << >>) >>
                       ELSE Append(stateQueue, Updater("disabled", FALSE, << >>))
  /\ UNCHANGED << autoSubmit, disabled, currentValues, currentDocument,
                  deletedValues, submitted, awaitingData, updates,
                  formCallbacks, registrations, cleanupRuns >>

\* Lines 691-702: updateCurrentValues queues its updater.
UpdateCurrentValues(newValues) ==
  /\ updates < MaxUpdates
  /\ autoSubmit => submitted + Len(ValuesUpdaters(stateQueue)) < MaxSubmits
  /\ updates' = updates + 1
  /\ stateQueue' = Append(stateQueue, Updater("values", FALSE, newValues))
  /\ UNCHANGED << autoSubmit, disabled, currentValues, currentDocument,
                  deletedValues, submitted, awaitingData, inFlight,
                  formCallbacks, registrations, cleanupRuns >>

\* Lines 883-893: a child component calls clearForm.
ClearForm ==
  /\ updates < MaxUpdates
  /\ updates' = updates + 1
  /\ stateQueue' = Append(stateQueue, Updater("clear", FALSE, << >>))
  /\ UNCHANGED << autoSubmit, disabled, currentValues, currentDocument,
                  deletedValues, submitted, awaitingData, inFlight,
                  formCallbacks, registrations, cleanupRuns >>

\* React applies the queued updaters and then runs the callbacks passed
\* with them: lines 735-738, which call submitForm under autoSubmit.
ApplyState ==
  /\ stateQueue # << >>
  /\ LET prevState == [ currentValues |-> currentValues,
                        currentDocument |-> currentDocument,
                        deletedValues |-> deletedValues,
                        disabled |-> disabled ]
         newState == ApplyQueue(prevState, stateQueue)
         n == IF autoSubmit THEN Len(ValuesUpdaters(stateQueue)) ELSE 0
     IN  /\ currentValues' = newState.currentValues
         /\ currentDocument' = newState.currentDocument
         /\ deletedValues' = newState.deletedValues
         /\ disabled' = newState.disabled
         /\ SubmitFormCalls(n, newState.disabled, << >>)
  /\ UNCHANGED << autoSubmit, inFlight, updates, formCallbacks, registrations,
                  cleanupRuns >>

NextForm ==
  \/ SubmitForm /\ UNCHANGED << mvars, svars >>
  \/ GetDataDone /\ UNCHANGED << mvars, svars >>
  \/ MutationDone /\ UNCHANGED << mvars, svars >>
  \/ \E newValues \in NewValues :
       UpdateCurrentValues(newValues) /\ UNCHANGED << mvars, svars >>
  \/ ClearForm /\ UNCHANGED << mvars, svars >>
  \/ ApplyState /\ UNCHANGED << mvars, svars >>

InitFormSpec == MigrationAtRest /\ ServerAtRest /\ InitForm

\* React applies queued state, and every awaited promise settles.
FairnessForm ==
  /\ WF_vars(ApplyState /\ UNCHANGED << mvars, svars >>)
  /\ WF_vars(GetDataDone /\ UNCHANGED << mvars, svars >>)
  /\ WF_vars(MutationDone /\ UNCHANGED << mvars, svars >>)

SpecForm == InitFormSpec /\ [][NextForm]_vars /\ FairnessForm

\* indexOf on a list of callbacks: the first position of callback, 0 for -1.
indexOf(list, callback) ==
  IF \E k \in 1..Len(list) : list[k].cb = callback
    THEN CHOOSE k \in 1..Len(list) :
           /\ list[k].cb = callback
           /\ \A j \in 1..(k - 1) : list[j].cb # callback
    ELSE 0

\* splice(index, 1)
splice(list, index) ==
  [ k \in 1..(Len(list) - 1) |-> IF k < index THEN list[k] ELSE list[k + 1] ]

\* Lines 609-638: addToSubmitForm, addToSuccessForm and addToFailureForm push
\* the callback on their list and return a cleanup function.  An element of
\* a list carries, besides the callback, the registration that pushed it.
AddToForm(l, callback) ==
  /\ Len(registrations) < MaxRegistrations
  /\ formCallbacks' =
       [ formCallbacks EXCEPT
           ![l] = Append(@, [ cb |-> callback, reg |-> Len(registrations) + 1 ]) ]
  /\ registrations' = Append(registrations, [ list |-> l, cb |-> callback ])
  /\ cleanupRuns' = Append(cleanupRuns, 0)
  /\ UNCHANGED << autoSubmit, disabled, currentValues, currentDocument,
                  deletedValues, stateQueue, submitted, awaitingData, inFlight,
                  updates >>

AddToSubmitForm(callback) == AddToForm("submit", callback)
AddToSuccessForm(callback) == AddToForm("success", callback)
AddToFailureForm(callback) == AddToForm("failure", callback)

\* Lines 611-615, 622-626, 633-637: the cleanup function of registration r
\* runs.
RunCleanup(r) ==
  /\ r \in 1..Len(registrations)
  /\ cleanupRuns[r] < MaxCleanupRuns
  /\ cleanupRuns' = [ cleanupRuns EXCEPT ![r] = @ + 1 ]
  /\ LET l == registrations[r].list
         index == indexOf(formCallbacks[l], registrations[r].cb)
     IN  formCallbacks' =
           IF index >= 1
             THEN [ formCallbacks EXCEPT ![l] = splice(@, index) ]
             ELSE formCallbacks
  /\ UNCHANGED << autoSubmit, disabled, currentValues, currentDocument,
                  deletedValues, stateQueue, submitted, awaitingData, inFlight,
                  updates, registrations >>

NextCallbacks ==
  \/ \E callback \in Callbacks :
       AddToSubmitForm(callback) /\ UNCHANGED << mvars, svars >>
  \/ \E callback \in Callbacks :
       AddToSuccessForm(callback) /\ UNCHANGED << mvars, svars >>
  \/ \E callback \in Callbacks :
       AddToFailureForm(callback) /\ UNCHANGED << mvars, svars >>
  \/ \E r \in 1..MaxRegistrations : RunCleanup(r) /\ UNCHANGED << mvars, svars >>

SpecCallbacks == InitFormSpec /\ [][NextCallbacks]_vars

\* ------------------------------------------------------------- properties
IsInsert(s) == s.kind = "INSERT"
Rejected(s) == s.outcome # "ok"
InsertStmts == SelectSeq(stmts, IsInsert)
FailedInserts == { i \in 1..Len(stmts) : IsInsert(stmts[i]) /\ Rejected(stmts[i]) }
\* Number of batches the cursor delivers for n documents.
BatchCount(n) == (n + batchSize - 1) \div batchSize
\* Cursor positions carried by the statements numbered in S.
Positions(S) == UNION { stmts[i].lo .. stmts[i].hi : i \in S }

\* C1: a batch whose INSERT is rejected does not abort the run: the run is
\* never failed by it, and when the run has finished one INSERT was executed
\* for every batch of the source, in cursor order, rejected ones included.
C1_FailedBatchDoesNotAbort ==
  /\ FailedInserts # {} => pc # "failed" /\ error = NoError
  /\ pc = "done" =>
       LET ins == InsertStmts IN
       /\ Len(ins) = BatchCount(Len(source))
       /\ \A k \in 1..Len(ins) :
            /\ ins[k].lo = (k - 1) * batchSize + 1
            /\ ins[k].hi = Min(k * batchSize, Len(source))

\* A finished run in which a rejected INSERT was followed by a later INSERT.
C1_Witness ==
  /\ pc = "done"
  /\ \E i \in FailedInserts : \E j \in (i + 1)..Len(stmts) : IsInsert(stmts[j])

\* C2: when the run has finished, errorIds holds exactly the _id of the
\* documents of the batches whose INSERT was rejected.
C2_ErrorIdsExact ==
  pc = "done" =>
    Range(errorIds) = { source[i]._id : i \in Positions(FailedInserts) }

\* A finished run with two rejected batches and one that went through.
C2_Witness ==
  /\ pc = "done"
  /\ Cardinality(FailedInserts) = 2
  /\ \E i \in 1..Len(stmts) : IsInsert(stmts[i]) /\ ~Rejected(stmts[i])

\* C3: when exactly one batch of a finished run was rejected, every document
\* of the source outside that batch has its row at the destination.
C3_OtherBatchesPresent ==
  (pc = "done" /\ Cardinality(FailedInserts) = 1) =>
    LET failed == Positions(FailedInserts)
        present == Ids(dest)
    IN  \A i \in 1..Len(source) :
          i \notin failed => source[i]._id \in present

\* A first run over three batches, the first of them rejected.
C3_Witness ==
  /\ pc = "done"
  /\ rowsAtStart = 0
  /\ Len(InsertStmts) = 3
  /\ FailedInserts = { CHOOSE i \in 1..Len(stmts) : IsInsert(stmts[i]) }

\* C4: no step of any run changes or duplicates a row that is already at the
\* destination: the rows present stay as they are, a step adds only rows of
\* source documents whose _id was missing, no _id occurs twice, and a run that
\* began with every source document present ends with the rows it began with.
C4_Idempotent ==
  [][ LET before == Ids(dest)
          stored == Ids(source)
      IN  /\ dest' # dest =>
                /\ Len(dest') >= Len(dest)
                /\ SubSeq(dest', 1, Len(dest)) = dest
                /\ \A i \in (Len(dest) + 1)..Len(dest') :
                     /\ dest'[i]._id \notin before
                     /\ dest'[i]._id \in stored
                /\ Cardinality(Ids(dest')) = Len(dest')
          /\ (pc' = "done" /\ stored \subseteq Ids(SubSeq(dest', 1, rowsAtStart')))
                => Len(dest') = rowsAtStart' ]_vars

\* A second run after a partial failure: one of its INSERTs found all of its
\* rows present and wrote none, another one added rows that were missing.
C4_Witness ==
  /\ pc = "done"
  /\ run = 2
  /\ \E i \in 1..Len(stmts) :
       /\ IsInsert(stmts[i]) /\ ~Rejected(stmts[i])
       /\ stmts[i].nrows = 0
  /\ \E i \in 1..Len(stmts) :
       /\ IsInsert(stmts[i]) /\ ~Rejected(stmts[i])
       /\ stmts[i].nrows > 0

\* C5: a rejected CREATE TABLE fails the run with the statement's own error,
\* and it is the only statement the run executed.
C5_TableFailureFatal ==
  \A i \in 1..Len(stmts) :
    (stmts[i].kind = "CREATE TABLE" /\ Rejected(stmts[i])) =>
      /\ pc = "failed"
      /\ error = stmts[i].outcome
      /\ Len(stmts) = 1

\* A run failed by CREATE TABLE on a collection with indexes and documents.
C5_Witness ==
  /\ pc = "failed"
  /\ Len(stmts) = 1
  /\ Rejected(stmts[1])
  /\ Len(table.indexes) > 0
  /\ Len(source) > 0

FailedIndexes ==
  { i \in 1..Len(stmts) : stmts[i].kind = "CREATE INDEX" /\ Rejected(stmts[i]) }
IndexStmts == { i \in 1..Len(stmts) : stmts[i].kind = "CREATE INDEX" }

C7_EmptyTableAborts ==
  (run > 0 /\ collectionName \in RegisteredCollections /\ table.fields = {}) =>
    /\ pc = "failed"
    /\ error = "SchemaError"
    /\ stmts = << >>

\* A run over a schema with fields, none of them representable.
C7_Witness ==
  /\ run > 0
  /\ collectionName \in RegisteredCollections
  /\ table.fields = {}
  /\ skippedFields # {}
  /\ Len(source) > 0
  /\ pc = "failed"

\* Widest table a full batch fits: floor(65534 / 400) columns.
SafeFieldCount == 65534 \div 400

\* C8 as claimed: every INSERT has at most maxParameters parameters.
C8_ParametersBounded ==
  pc = "insert" => InsertArgs(documents, table) <= maxParameters

\* C8 as amended: a batch has at most 400 documents whatever the table, so
\* an INSERT has at most 65534 parameters when the table has at most
\* SafeFieldCount fields.
C8_ParametersBoundedNarrow ==
  pc = "insert" =>
    /\ Len(documents) <= 400
    /\ Cardinality(table.fields) <= SafeFieldCount =>
         InsertArgs(documents, table) <= 65534

\* A full batch for the widest table that fits.
C8_Witness ==
  /\ pc = "insert"
  /\ Len(documents) = 400
  /\ Cardinality(table.fields) = SafeFieldCount

\* C9: no step of a run changes the stored documents.
C9_SourceUnchanged == [][source' = source]_vars

\* A finished run over Posts whose formatter rewrote a document: the row at
\* the destination differs from the stored document.
C9_Witness ==
  /\ pc = "done"
  /\ \E i \in 1..Len(dest) :
       \E j \in 1..Len(source) :
         /\ source[j]._id = dest[i]._id
         /\ Row(source[j], table.fields) # dest[i]

\* C10: rejected batches alone never fail the run: with failed documents
\* recorded the run has thrown nothing, and once finished it has reported
\* them and returned.
C10_BatchFailuresNotFatal ==
  Len(errorIds) > 0 =>
    /\ pc # "failed"
    /\ error = NoError
    /\ pc = "done" =>
         /\ \E i \in 1..Len(log) : log[i] = "...import errors"
         /\ log[Len(log)] = "=== Finished migrating collection"

\* A finished run in which every batch was rejected.
C10_Witness ==
  /\ pc = "done"
  /\ Len(errorIds) = Len(source)
  /\ Len(source) > batchSize

\* Position of a statement kind in a run: table, then indexes, then rows.
KindRank(kind) ==
  CASE kind = "CREATE TABLE" -> 1 [] kind = "CREATE INDEX" -> 2 [] OTHER -> 3

\* Step a console line belongs to: 1 schema built, 2 table created,
\* 3 indexes created, 4 copying, 5 done.
LogRank(msg) ==
  CASE msg \in { "=== Migrating collection", "...Looking up collection",
                 "...Building schema", "...Migrating fields",
                 "......Warning: Skipped fields" } -> 1
    [] msg \in { "...Creating table", "Failed to create table" } -> 2
    [] msg \in { "...Creating indexes", "...Warning: 0 indexes found" } -> 3
    [] msg \in { "...Copying data", "......Migrating documents",
                 "ERROR IMPORTING DOCUMENT BATCH" } -> 4
    [] OTHER -> 5

\* C11: the steps of a run come in the order schema, table, indexes, copy,
\* done: the statements are CREATE TABLE, then the CREATE INDEXes, then the
\* INSERTs; an INSERT is executed only after CREATE TABLE succeeded and every
\* index was attempted; a failed run has executed no INSERT.
C11_StepOrder ==
  /\ \A i \in 1..Len(stmts) : \A j \in (i + 1)..Len(stmts) :
       KindRank(stmts[i].kind) <= KindRank(stmts[j].kind)
  /\ \A i \in 1..Len(log) : \A j \in (i + 1)..Len(log) :
       LogRank(log[i]) <= LogRank(log[j])
  /\ (pc \in { "insert", "done" } \/ \E i \in 1..Len(stmts) : IsInsert(stmts[i])) =>
       /\ Len(stmts) >= 1 + Len(table.indexes)
       /\ stmts[1].kind = "CREATE TABLE" /\ stmts[1].outcome = "ok"
       /\ \A k \in 1..Len(table.indexes) :
            stmts[1 + k].kind = "CREATE INDEX" /\ stmts[1 + k].lo = k
  /\ pc = "failed" =>
       /\ \A i \in 1..Len(stmts) : ~IsInsert(stmts[i])
       /\ cursor = 0

\* A finished run that created two indexes and then copied two batches.
C11_Witness ==
  /\ pc = "done"
  /\ Len(table.indexes) = 2
  /\ Len(InsertStmts) = 2

\* INSERT statements sent and not yet resolved: the callbacks begun (one
\* "......Migrating documents" line each) that have not recorded an outcome.
InsertsInFlight ==
  Cardinality({ i \in 1..Len(log) : log[i] = "......Migrating documents" })
    - Len(InsertStmts)

\* C12: at most one INSERT is in flight, and the cursor delivers the next
\* batch only when none is: the INSERTs of a run resolve in cursor order.
C12_OneInsertInFlight ==
  /\ InsertsInFlight \in { 0, 1 }
  /\ InsertsInFlight = 1 <=> pc = "insert"
  /\ \A i \in 1..Len(stmts) : \A j \in (i + 1)..Len(stmts) :
       (IsInsert(stmts[i]) /\ IsInsert(stmts[j])) => stmts[i].lo < stmts[j].lo

\* The second batch is in flight, the first has resolved.
C12_Witness ==
  /\ pc = "insert"
  /\ Len(InsertStmts) = 1
  /\ cursor > batchSize

\* C13: no two INSERTs of a run carry the same documents: the ranges of
\* cursor positions of the INSERTs are disjoint, rejected ones included.
C13_NoRetry ==
  \A i \in 1..Len(stmts) : \A j \in 1..Len(stmts) :
    (i # j /\ IsInsert(stmts[i]) /\ IsInsert(stmts[j])) =>
      (stmts[i].hi < stmts[j].lo \/ stmts[j].hi < stmts[i].lo)

\* A finished run of three batches, each of them rejected once.
C13_Witness ==
  /\ pc = "done"
  /\ Len(InsertStmts) = 3
  /\ Cardinality(FailedInserts) = 3

\* C14: for Posts, no document is handed to the INSERT, and no row is at the
\* destination, with a boolean scoreExceeded75Date; a document stored with
\* the value true is handed over with the timestamp of the migration.
C14_PostsFormatted ==
  collectionName = "Posts" =>
    /\ \A i \in 1..Len(documents) :
         LET stored == source[cursor - Len(documents) + i] IN
         /\ documents[i].scoreExceeded75Date.type # "boolean"
         /\ stored.scoreExceeded75Date = BoolVal(1) =>
              documents[i].scoreExceeded75Date = DateVal(clock)
    /\ \A i \in 1..Len(dest) : dest[i].scoreExceeded75Date.type # "boolean"

\* A Posts row whose stored document has true: it carries a timestamp.
C14_Witness ==
  /\ collectionName = "Posts"
  /\ \E i \in 1..Len(dest) :
       /\ source[dest[i]._id].scoreExceeded75Date = BoolVal(1)
       /\ dest[i].scoreExceeded75Date.type = "date"
       /\ dest[i].scoreExceeded75Date.val > 0

\* First position of a console line, 0 when it was not printed.
LogIndex(msg) ==
  IF \E i \in 1..Len(log) : log[i] = msg
    THEN CHOOSE i \in 1..Len(log) : log[i] = msg /\ \A j \in 1..(i - 1) : log[j] # msg
    ELSE 0

\* C15: once the schema was built, skippedFields is the set of schema fields
\* that are not table fields; the warning is printed exactly when that set
\* is not empty, and it is printed before "...Creating table", so before any
\* statement is executed.
C15_SkippedReported ==
  (run > 0 /\ collectionName \in RegisteredCollections) =>
    /\ skippedFields = DOMAIN schemaFields \ table.fields
    /\ skippedFields # {} <=> LogIndex("......Warning: Skipped fields") > 0
    /\ skippedFields # {} =>
         /\ LogIndex("......Warning: Skipped fields") < LogIndex("...Creating table")
         /\ LogIndex("...Creating table") > 0

\* CREATE TABLE is about to be executed and the warning was printed.
C15_Witness ==
  /\ pc = "createTable"
  /\ stmts = << >>
  /\ skippedFields = { "legacy" }
  /\ Cardinality(table.fields) = 3

\* ----------------------------------------------- properties of the server
\* The step dispatches an operation of process i.
DispatchStep(i) == ~Pending(op[i]) /\ Pending(op'[i])

\* The step is a poll of process i that could not reach the lock table.
PollFailedStep(i) ==
  pollDue[i] /\ ~pollDue'[i] /\ lastPoll'[i] = "unreachable"

Serving(i) == phase[i] \in { "webserver", "shell" }

\* C16 as stated: while the record has never been flipped, and again once a
\* polling interval has elapsed after a flip and the polls of that interval
\* have resolved, every operation dispatched routes to the backend the
\* record names.
C16_RoutesToRecord ==
  [][\A i \in Instances :
       (DispatchStep(i) /\ (cutovers = 0 \/ (elapsed >= 1 /\ ~pollDue[i])))
         => op'[i].backend = lockState]_vars

\* C16, amended: once a polling interval has elapsed since the record was
\* last written and the poll of that interval has resolved without failing,
\* every operation dispatched routes to the backend the record names.
C16_RoutesWhenPolled ==
  [][\A i \in Instances :
       (DispatchStep(i) /\ elapsed >= 1 /\ ~pollDue[i]
          /\ lastPoll[i] # "unreachable")
         => op'[i].backend = lockState]_vars

\* The record was flipped from mongo to pg, an interval has elapsed, and an
\* operation dispatched after the poll of that interval is bound for pg.
C16_Witness ==
  \E i \in Instances :
    /\ cutovers = 1 /\ lockState = "pg"
    /\ elapsed >= 1 /\ ~pollDue[i]
    /\ Pending(op[i]) /\ op[i].poll = "ok" /\ ~op[i].observed
    /\ op[i].backend = "pg"

\* C17: an operation in flight keeps the backend it was dispatched to,
\* whatever the polls observe, and completes against that backend.
C17_SnapshotAtDispatch ==
  [][\A i \in Instances :
       Pending(op[i]) =>
         /\ op'[i].backend = op[i].backend
         /\ ~Pending(op'[i]) => op'[i].ranOn = op[i].backend]_vars

\* An operation completed against the backend of its dispatch although a
\* poll had moved the collection to the other backend while it was in flight.
C17_Witness ==
  \E i \in Instances :
    /\ op[i].observed
    /\ op[i].ranOn = op[i].backend
    /\ op[i].ranOn # target[i]

\* C18: the lock record changes only in a cutover, a step in which no
\* process and no Switching Collection does anything.
C18_LockWrittenOnlyByCutover ==
  [][lockState' # lockState =>
       /\ cutovers' = cutovers + 1
       /\ UNCHANGED << phase, sqlClient, calls, target, polling, pollDue,
                       lastPoll, hasRead, op >>]_vars

\* After a cutover, a process has polled the record and completed a write.
C18_Witness ==
  \E i \in Instances :
    /\ cutovers >= 1
    /\ lastPoll[i] = "ok"
    /\ op[i].kind = "write" /\ op[i].ranOn = "pg"

\* C19: a poll that cannot reach the lock table keeps the backend of the
\* collection, leaves its operations alone and leaves it polling; and a
\* process whose latest poll failed can dispatch an operation.
C19_StaleButAvailable ==
  /\ [](\A i \in Instances :
          (lastPoll[i] = "unreachable" /\ Serving(i) /\ ~Pending(op[i]))
            => ENABLED (Dispatch(i, "read") /\ UNCHANGED << mvars, fvars >>))
  /\ [][\A i \in Instances :
          PollFailedStep(i) =>
            /\ target'[i] = target[i]
            /\ polling'[i]
            /\ op'[i] = op[i]
            /\ phase'[i] = phase[i]]_vars

\* An operation was dispatched after a failed poll to the last-known
\* backend, which is no longer the one the record names, and a later poll
\* has reached the table again.
C19_Witness ==
  \E i \in Instances :
    /\ op[i].poll = "unreachable" /\ op[i].attached
    /\ op[i].backend # lockState
    /\ lastPoll[i] = "ok"

\* C20: every operation was dispatched by a collection that had read the
\* lock record at least once.
C20_ReadBeforeDispatch ==
  \A i \in Instances : op[i] # NoOp => op[i].attached

\* The process has run serverStartup to its end.
Started(i) == phase[i] \in { "webserver", "shell", "started" }

\* C21: once a polling interval has elapsed since the cutover and the polls
\* of that interval have resolved, every started process whose poll did not
\* fail selects the backend the record names; so all of them select the same.
C21_PeersConverge ==
  LET settled == { i \in Instances :
                     Started(i) /\ ~pollDue[i] /\ lastPoll[i] # "unreachable" }
  IN  elapsed >= 1 =>
        /\ \A i \in settled : target[i] = lockState
        /\ \A i \in settled : \A j \in settled : target[i] = target[j]

\* Two processes have followed a cutover to pg within one interval.
C21_Witness ==
  \E i \in Instances : \E j \in Instances \ { i } :
    /\ cutovers >= 1 /\ elapsed = 1 /\ lockState = "pg"
    /\ Started(i) /\ Started(j)
    /\ ~pollDue[i] /\ ~pollDue[j]
    /\ lastPoll[i] = "ok" /\ lastPoll[j] = "ok"
    /\ target[i] = "pg" /\ target[j] = "pg"

\* An invocation of mongoToSql has not returned or thrown.
Running == pc \in { "createTable", "createIndex", "fetch", "insert" }

\* C22: every run ends: it fails having executed no INSERT, or it reaches
\* the finished state with the cursor at the end of the collection.
C22_RunEnds ==
  Running ~> \/ pc = "failed" /\ InsertStmts = << >>
             \/ pc = "done" /\ cursor = Len(source)

\* A run of three batches of which two were rejected has finished.
C22_Witness ==
  /\ pc = "done"
  /\ Len(InsertStmts) = 3
  /\ Cardinality(FailedInserts) = 2

\* Collections with an entry in formatters.
Formatted == { "Posts" }

\* C23: the batch handed to the INSERT is the batch the cursor delivered,
\* document by document, unless the collection has a formatter; with the
\* formatter of Posts it is the image of that batch under the formatter.
C23_IdentityWithoutFormatter ==
  \A i \in 1..Len(documents) :
    LET stored == source[cursor - Len(documents) + i] IN
    IF collectionName \in Formatted
      THEN documents[i] = FormatPost(stored, clock)
      ELSE documents[i] = stored

\* A batch of Comments is at the INSERT with a boolean scoreExceeded75Date
\* and an empty title left as they are stored.
C23_Witness ==
  /\ collectionName = "Comments"
  /\ pc = "insert"
  /\ \E i \in 1..Len(documents) : documents[i].scoreExceeded75Date.type = "boolean"
  /\ \E i \in 1..Len(documents) : Falsy(documents[i].title)

\* C24: called with a name that has no collection, mongoToSql has thrown
\* "Invalid collection" with no table derived, no statement executed and
\* nothing past the lookup printed.
C24_InvalidCollectionThrows ==
  (run > 0 /\ collectionName \notin RegisteredCollections) =>
    /\ pc = "failed"
    /\ error = "Invalid collection"
    /\ table = NoTable
    /\ skippedFields = {}
    /\ stmts = << >>
    /\ dest = << >>
    /\ \A i \in 1..Len(log) : log[i] \in { "=== Migrating collection",
                                           "...Looking up collection" }

\* The second call with the unknown name has thrown as the first did.
C24_Witness ==
  /\ collectionName = "Nope"
  /\ run = 2
  /\ error = "Invalid collection"
  /\ Len(source) > 0

\* Positions in the calls of process i of the calls of fn.
CallsOf(i, fn) == { k \in 1..Len(calls[i]) : calls[i][k].fn = fn }

\* The collections on which process i has called fn.
CalledOn(i, fn) == { calls[i][k].on : k \in CallsOf(i, fn) }

CollectionsWhere(Test(_)) ==
  { Collections[k].name : k \in { n \in 1..Len(Collections) : Test(Collections[n]) } }

\* C25: in a process that has run serverStartup to its end,
\* buildPostgresTable was called on every PgCollection and
\* SwitchingCollection, each of these calls before every startPolling;
\* startPolling was called on every SwitchingCollection, each of these
\* calls before the web server or the shell was started.
C25_BuildThenPollThenServe ==
  \A i \in Instances :
    Started(i) =>
      LET builds == CallsOf(i, "buildPostgresTable")
          polls == CallsOf(i, "startPolling")
          serves == CallsOf(i, "startWebserver") \cup CallsOf(i, "initShell")
      IN  /\ CalledOn(i, "buildPostgresTable") = CollectionsWhere(IsPgBacked)
          /\ CalledOn(i, "startPolling") = CollectionsWhere(IsSwitching)
          /\ \A b \in builds : \A p \in polls : b < p
          /\ \A p \in polls : \A w \in serves : p < w
          /\ \A b \in builds : \A w \in serves : b < w
          /\ (phase[i] # "started") = (serves # {})

\* A web server process has made its four calls and is polling.
C25_Witness ==
  \E i \in Instances :
    /\ phase[i] = "webserver"
    /\ Len(calls[i]) = 4
    /\ calls[i][4].fn = "startWebserver"
    /\ polling[i]

\* C26: a process that has called buildPostgresTable or startPolling has a
\* Postgres client set.
C26_PollingNeedsClient ==
  \A i \in Instances : (calls[i] # << >> \/ polling[i]) => sqlClient[i]

\* ------------------------------------------------- properties of the form
\* C27: at most one create/update mutation is awaited at any time.
C27_OneMutationAtATime == inFlight <= 1

\* C28: whenever the form is disabled, it is enabled again later.
C28_EnabledAgain == disabled ~> ~disabled

\* The step applies a queue that holds the updater of one
\* updateCurrentValues call and nothing else.
AppliesOneUpdate ==
  /\ Len(stateQueue) = 1
  /\ stateQueue[1].kind = "values"
  /\ updates' = updates
  /\ stateQueue' = << >> \/ stateQueue'[1].kind # "values"

\* C29: after the updater of updateCurrentValues(newValues) is applied, each
\* key with an empty value is in deletedValues, absent from currentValues
\* and null in currentDocument, and each key with a non-empty value is not
\* in deletedValues.
C29_DeletedValuesFollowKeys ==
  [][AppliesOneUpdate =>
       \A k \in 1..Len(stateQueue[1].values) :
         LET path == stateQueue[1].values[k][1]
             value == stateQueue[1].values[k][2]
         IN  IF isEmptyValue(value)
               THEN /\ path \in Range(deletedValues')
                    /\ path \notin DOMAIN currentValues'
                    /\ currentDocument'[path] = Null
               ELSE path \notin Range(deletedValues')]_vars

\* The callbacks of a list, as runCallbacksList sees them.
CallbacksOf(list) == [ k \in 1..Len(list) |-> list[k].cb ]

\* C30: a run of the cleanup function of registration r leaves in its list
\* the callbacks of all other registrations, in their order, and leaves the
\* other lists alone; so a second run changes nothing, and another
\* registration of the same callback stays.
C30_CleanupRemovesItsOwn ==
  [][\A r \in 1..Len(registrations) :
       (Len(cleanupRuns') = Len(cleanupRuns) /\ cleanupRuns'[r] = cleanupRuns[r] + 1)
         => \A l \in Lists :
              CallbacksOf(formCallbacks'[l]) =
                IF l = registrations[r].list
                  THEN CallbacksOf(SelectSeq(formCallbacks[l], LAMBDA e : e.reg # r))
                  ELSE CallbacksOf(formCallbacks[l])]_vars

====
